---- MODULE Spec2Model ----
(***************************************************************************)
(* EEPROM emulation engine of EEPROM_Project/round.py.                     *)
(*                                                                         *)
(* The device is two files (eeprom.bin, write_cycles.bin), a seed-text     *)
(* file (default_text.txt) and the module-level list write_cycles of the   *)
(* running process.  One action models one menu operation of main(), with  *)
(* every call it makes.  A Python exception that no handler catches ends   *)
(* the process (main() has no try/except around the menu).                 *)
(*                                                                         *)
(* Addresses are 0-based as in the code; files and lists are sequences, so *)
(* the cell of address a is element a + 1.                                 *)
(***************************************************************************)
EXTENDS Integers, Sequences, FiniteSets, TLC

(***************************************************************************)
(* Size of the model.  The device is scaled down, keeping the order of the *)
(* code's numbers: the largest count one byte of write_cycles.bin holds    *)
(* (255 in the code: bytes() raises ValueError above it) stays below       *)
(* MAX_WRITE_CYCLES (1000 in the code), and EEPROM_SIZE (1024 in the code) *)
(* has room for the seed text, its terminator and an erased cell.          *)
(***************************************************************************)
EEPROM_SIZE == 3

MAX_WRITE_CYCLES == 4

\* largest value bytes() accepts for a counter
COUNT_BYTE_MAX == 2

\* longest data list / text handed to write_bytes, write_string
MaxData == 2

(***************************************************************************)
(* Program constants.                                                      *)
(***************************************************************************)
ERASED == 255

TERMINATOR == 0

\* Python's None, as returned by read_byte for an address out of range
NONE == -1

BYTE_MASK == 255

EEPROM_FILE == "eeprom.bin"

WRITE_CYCLE_FILE == "write_cycles.bin"

DEFAULT_TEXT_FILE == "default_text.txt"

\* "Mission Complete", shortened to its first letter for the scaled device
MISSION_COMPLETE == <<77>>

VARIABLES
    pc,               \* "off": no process; "menu": main() waits for a choice;
                      \* "returned": the chosen handler has returned to main()
    fs,               \* names of the files that exist
    eeprom_bin,       \* bytes of eeprom.bin
    write_cycles_bin, \* bytes of write_cycles.bin
    default_text_txt, \* characters (code points) of default_text.txt
    write_cycles,     \* the module-level list write_cycles
    last_op,          \* the operation that produced this state, its arguments and outcome
    byteorder         \* sys.byteorder of the platform: the order ctypes gives native fields

vars == <<pc, fs, eeprom_bin, write_cycles_bin, default_text_txt, write_cycles, last_op, byteorder>>

(***************************************************************************)
(* Helpers for Python values.                                              *)
(***************************************************************************)
Fill(n, x) == [i \in 1..n |-> x]

\* bytes([x] * n): the empty sequence when n <= 0
Repeat(x, n) == IF n > 0 THEN Fill(n, x) ELSE <<>>

Last(s) == s[Len(s)]

Front(s) == SubSeq(s, 1, Len(s) - 1)

WHITESPACE == {9, 10, 11, 12, 13, 28, 29, 30, 31, 32}

RECURSIVE LStrip(_)
LStrip(s) == IF s # <<>> /\ Head(s) \in WHITESPACE THEN LStrip(Tail(s)) ELSE s

RECURSIVE RStrip(_)
RStrip(s) == IF s # <<>> /\ Last(s) \in WHITESPACE THEN RStrip(Front(s)) ELSE s

\* str.strip()
Strip(s) == RStrip(LStrip(s))

\* UTF-8 bytes of one code point (str.encode())
EncodeChar(c) ==
    IF c < 128 THEN <<c>>
    ELSE IF c < 2048 THEN <<192 + (c \div 64), 128 + (c % 64)>>
    ELSE IF c < 65536 THEN <<224 + (c \div 4096), 128 + ((c \div 64) % 64), 128 + (c % 64)>>
    ELSE <<240 + (c \div 262144), 128 + ((c \div 4096) % 64), 128 + ((c \div 64) % 64), 128 + (c % 64)>>

RECURSIVE Encode(_)
Encode(s) == IF s = <<>> THEN <<>> ELSE EncodeChar(Head(s)) \o Encode(Tail(s))

\* f.seek(pos); f.read(n): a read past the end of the file returns fewer bytes
FileRead(file, pos, n) ==
    IF pos + n <= Len(file) THEN SubSeq(file, pos + 1, pos + n) ELSE SubSeq(file, pos + 1, Len(file))

\* f.seek(pos); f.write(bytes([b])) on a file opened "r+b"
SeekWrite(file, pos, b) ==
    IF pos < Len(file)
    THEN [file EXCEPT ![pos + 1] = b]
    ELSE file \o Repeat(0, pos - Len(file)) \o <<b>>

\* bytes(lst) raises ValueError unless every element is in range(0, 256);
\* the counters' byte is scaled to COUNT_BYTE_MAX
BytesOk(lst) == \A i \in 1..Len(lst) : lst[i] >= 0 /\ lst[i] <= COUNT_BYTE_MAX

(***************************************************************************)
(* The machine a handler runs on: the files, the list write_cycles, the    *)
(* audit lines the handler appends (log), what it printed (out), what it   *)
(* returns (ret) and whether an exception is propagating (st).             *)
(***************************************************************************)
Machine ==
    [fs |-> fs, eeprom |-> eeprom_bin, cycfile |-> write_cycles_bin,
     txt |-> default_text_txt, wc |-> write_cycles,
     log |-> <<>>, out |-> <<>>, ret |-> <<>>, st |-> "ok"]

Raised(m) == m.st # "ok"

log_action(m, line) == [m EXCEPT !.log = Append(@, line)]

\* print_info / print_warning / print_error: what the caller is told
Echo(m, what) == [m EXCEPT !.out = Append(@, what)]

Raise(m, exc) == [m EXCEPT !.st = exc]

Event(ev, address, n) == [ev |-> ev, address |-> address, n |-> n]

(***************************************************************************)
(* Default text management.                                                *)
(***************************************************************************)
\* the file system after get_default_text(): default_text.txt is created on demand
get_default_text_fs(m) ==
    IF DEFAULT_TEXT_FILE \in m.fs
    THEN m
    ELSE [m EXCEPT !.fs = @ \cup {DEFAULT_TEXT_FILE}, !.txt = MISSION_COMPLETE]

\* the value get_default_text() returns
get_default_text(m) == Strip(get_default_text_fs(m).txt)

\* the seed written without its terminator
SeedImageNoTerminator(default_text) ==
    default_text \o Repeat(ERASED, EEPROM_SIZE - Len(default_text))

\* default_text + bytes([0x00]) + bytes([0xFF] * (EEPROM_SIZE - len(default_text) - 1))
SeedImage(default_text) ==
    default_text \o <<TERMINATOR>> \o Repeat(ERASED, EEPROM_SIZE - Len(default_text) - 1)

change_default_text(m, input) ==
    LET new_text == Strip(input)
        m1 == [m EXCEPT !.fs = @ \cup {DEFAULT_TEXT_FILE}, !.txt = new_text]
    IN  log_action(Echo(m1, "default_text_changed"), Event("DEFAULT_TEXT", 0, Len(new_text)))

(***************************************************************************)
(* Initialisation and persistence of the counters.                         *)
(***************************************************************************)
\* the length of write_cycles.bin not checked before it is loaded
init_eeprom_cycles_unchecked(m) ==
    IF /\ EEPROM_FILE \in m.fs /\ Len(m.eeprom) = EEPROM_SIZE
       /\ WRITE_CYCLE_FILE \in m.fs
    THEN log_action(Echo([m EXCEPT !.wc = m.cycfile], "loaded"), Event("LOADED", 0, 0))
    ELSE LET default_text == Encode(get_default_text(m))
             m1 == get_default_text_fs(m)
             m2 == [m1 EXCEPT !.fs = @ \cup {EEPROM_FILE, WRITE_CYCLE_FILE},
                              !.eeprom = SeedImage(default_text),
                              !.cycfile = Fill(EEPROM_SIZE, 0)]
         IN  log_action(Echo(m2, "initialized"), Event("INIT_FRESH", 0, Len(default_text)))

init_eeprom(m) ==
    IF /\ EEPROM_FILE \in m.fs /\ Len(m.eeprom) = EEPROM_SIZE
       /\ WRITE_CYCLE_FILE \in m.fs /\ Len(m.cycfile) = EEPROM_SIZE
    THEN log_action(Echo([m EXCEPT !.wc = m.cycfile], "loaded"), Event("LOADED", 0, 0))
    ELSE LET default_text == Encode(get_default_text(m))
             m1 == get_default_text_fs(m)
             m2 == [m1 EXCEPT !.fs = @ \cup {EEPROM_FILE, WRITE_CYCLE_FILE},
                              !.eeprom = SeedImage(default_text),
                              !.cycfile = Fill(EEPROM_SIZE, 0)]
         IN  log_action(Echo(m2, "initialized"), Event("INIT_FRESH", 0, Len(default_text)))

\* the counters kept in memory only
save_write_cycles_skipped(m) == m

\* open(WRITE_CYCLE_FILE, "wb") truncates the file before bytes(write_cycles) is evaluated
save_write_cycles(m) ==
    IF Raised(m) THEN m
    ELSE LET m1 == [m EXCEPT !.fs = @ \cup {WRITE_CYCLE_FILE}, !.cycfile = <<>>]
         IN  IF BytesOk(m.wc)
             THEN [m1 EXCEPT !.cycfile = m.wc]
             ELSE Raise(m1, "ValueError")

(***************************************************************************)
(* Byte operations.                                                        *)
(***************************************************************************)
\* the range check off by one: address EEPROM_SIZE passes it
write_byte_off_by_one(m, address, value) ==
    IF Raised(m) THEN m
    ELSE IF address < 0 \/ address > EEPROM_SIZE
    THEN Echo(m, "out_of_range")
    ELSE IF address + 1 > Len(m.wc)
    THEN Raise(m, "IndexError")
    ELSE IF m.wc[address + 1] >= MAX_WRITE_CYCLES
    THEN Echo(m, "max_write_cycles")
    ELSE IF EEPROM_FILE \notin m.fs
    THEN Raise(m, "FileNotFoundError")
    ELSE LET m1 == [m EXCEPT !.eeprom = SeekWrite(@, address, value % (BYTE_MASK + 1)),
                             !.wc[address + 1] = @ + 1]
             m2 == save_write_cycles(m1)
         IN  IF Raised(m2) THEN m2
             ELSE log_action(Echo(m2, "wrote"), Event("WRITE", address, value))

\* a write that leaves the count alone when the cell already holds the value
write_byte_skip_same(m, address, value) ==
    IF Raised(m) THEN m
    ELSE IF address < 0 \/ address >= EEPROM_SIZE THEN Echo(m, "out_of_range")
    ELSE IF address + 1 > Len(m.wc) THEN Raise(m, "IndexError")
    ELSE IF m.wc[address + 1] >= MAX_WRITE_CYCLES THEN Echo(m, "max_write_cycles")
    ELSE IF EEPROM_FILE \notin m.fs THEN Raise(m, "FileNotFoundError")
    ELSE LET m1 == [m EXCEPT !.eeprom = SeekWrite(@, address, value % (BYTE_MASK + 1)),
                             !.wc[address + 1] =
                                 IF m.eeprom[address + 1] = value % (BYTE_MASK + 1) THEN @ ELSE @ + 1]
             m2 == save_write_cycles(m1)
         IN  IF Raised(m2) THEN m2
             ELSE log_action(Echo(m2, "wrote"), Event("WRITE", address, value))

write_byte(m, address, value) ==
    IF Raised(m) THEN m
    ELSE IF address < 0 \/ address >= EEPROM_SIZE
    THEN Echo(m, "out_of_range")
    ELSE IF address + 1 > Len(m.wc)
    THEN Raise(m, "IndexError")
    ELSE IF m.wc[address + 1] >= MAX_WRITE_CYCLES
    THEN Echo(m, "max_write_cycles")
    ELSE IF EEPROM_FILE \notin m.fs
    THEN Raise(m, "FileNotFoundError")
    ELSE LET m1 == [m EXCEPT !.eeprom = SeekWrite(@, address, value % (BYTE_MASK + 1)),
                             !.wc[address + 1] = @ + 1]
             m2 == save_write_cycles(m1)
         IN  IF Raised(m2) THEN m2
             ELSE log_action(Echo(m2, "wrote"), Event("WRITE", address, value))

\* a read that counts a cycle for the address it reads
read_byte_wearing(m, address) ==
    IF Raised(m) THEN m
    ELSE IF address < 0 \/ address >= EEPROM_SIZE
    THEN [Echo(m, "out_of_range") EXCEPT !.ret = <<NONE>>]
    ELSE IF EEPROM_FILE \notin m.fs
    THEN Raise(m, "FileNotFoundError")
    ELSE IF address + 1 > Len(m.eeprom)
    THEN Raise(m, "IndexError")
    ELSE [log_action(Echo(m, "value"), Event("READ", address, m.eeprom[address + 1]))
            EXCEPT !.ret = <<m.eeprom[address + 1]>>, !.wc[address + 1] = @ + 1]

read_byte(m, address) ==
    IF Raised(m) THEN m
    ELSE IF address < 0 \/ address >= EEPROM_SIZE
    THEN [Echo(m, "out_of_range") EXCEPT !.ret = <<NONE>>]
    ELSE IF EEPROM_FILE \notin m.fs
    THEN Raise(m, "FileNotFoundError")
    ELSE IF address + 1 > Len(m.eeprom)
    THEN Raise(m, "IndexError")
    ELSE [log_action(Echo(m, "value"), Event("READ", address, m.eeprom[address + 1]))
            EXCEPT !.ret = <<m.eeprom[address + 1]>>]

RECURSIVE write_each(_, _, _)
\* for offset, val in enumerate(data_list): write_byte(start_address + offset, val)
write_each(m, start_address, data_list) ==
    IF data_list = <<>> THEN m
    ELSE write_each(write_byte(m, start_address, Head(data_list)),
                    start_address + 1, Tail(data_list))

write_bytes(m, start_address, data_list) ==
    LET m1 == write_each(m, start_address, data_list)
    IN  IF Raised(m1) THEN m1
        ELSE log_action(m1, Event("WRITE_BLOCK", start_address, Len(data_list)))

\* text is a sequence of code points: [ord(c) for c in text]
write_string(m, start_address, text) ==
    LET m1 == write_bytes(m, start_address, text)
        m2 == IF start_address + Len(text) < EEPROM_SIZE
              THEN write_byte(m1, start_address + Len(text), TERMINATOR)
              ELSE m1
    IN  IF Raised(m2) THEN m2
        ELSE log_action(m2, Event("WRITE_STRING", start_address, Len(text)))

RECURSIVE read_each(_, _, _)
\* vals = [read_byte(start_address + i) for i in range(length)], collected in m.ret
read_each(m, start_address, length) ==
    IF Raised(m) \/ length <= 0 THEN m
    ELSE LET m1 == read_byte(m, start_address)
         IN  read_each([m1 EXCEPT !.ret = m.ret \o m1.ret], start_address + 1, length - 1)

read_bytes(m, start_address, length) ==
    LET m1 == read_each([m EXCEPT !.ret = <<>>], start_address, length)
    IN  IF Raised(m1) THEN m1
        ELSE log_action(m1, Event("READ_BLOCK", start_address, length))

Printable(b) == b # NONE /\ 32 <= b /\ b <= 126

RECURSIVE UntilTerminator(_)
UntilTerminator(vals) ==
    IF vals = <<>> \/ Head(vals) = TERMINATOR THEN <<>>
    ELSE <<Head(vals)>> \o UntilTerminator(Tail(vals))

\* a read_string that stops at the first 0x00
read_string_to_terminator(m, start_address, length) ==
    LET m1 == read_bytes(m, start_address, length)
    IN  IF Raised(m1) THEN m1
        ELSE [log_action(Echo(m1, "string"), Event("READ_STRING", start_address, length))
                EXCEPT !.ret = SelectSeq(UntilTerminator(m1.ret), Printable)]

\* the text is returned as the sequence of its code points
read_string(m, start_address, length) ==
    LET m1 == read_bytes(m, start_address, length)
    IN  IF Raised(m1) THEN m1
        ELSE [log_action(Echo(m1, "string"), Event("READ_STRING", start_address, length))
                EXCEPT !.ret = SelectSeq(m1.ret, Printable)]

RECURSIVE SumNotNone(_)
\* sum(b for b in bytes_block if b is not None)
SumNotNone(vals) ==
    IF vals = <<>> THEN 0
    ELSE (IF Head(vals) = NONE THEN 0 ELSE Head(vals)) + SumNotNone(Tail(vals))

\* the checksum without its reduction modulo 256
compute_checksum_no_mod(m, start_address, length) ==
    LET m1 == read_bytes(m, start_address, length)
    IN  IF Raised(m1) THEN m1
        ELSE [log_action(Echo(m1, "checksum"), Event("CHECKSUM", start_address, length))
                EXCEPT !.ret = <<SumNotNone(m1.ret)>>]

\* a checksum that leaves out the last byte of the block
compute_checksum_short(m, start_address, length) ==
    LET m1 == read_bytes(m, start_address, length - 1)
    IN  IF Raised(m1) THEN m1
        ELSE [log_action(Echo(m1, "checksum"), Event("CHECKSUM", start_address, length))
                EXCEPT !.ret = <<SumNotNone(m1.ret) % (BYTE_MASK + 1)>>]

compute_checksum(m, start_address, length) ==
    LET m1 == read_bytes(m, start_address, length)
    IN  IF Raised(m1) THEN m1
        ELSE [log_action(Echo(m1, "checksum"), Event("CHECKSUM", start_address, length))
                EXCEPT !.ret = <<SumNotNone(m1.ret) % (BYTE_MASK + 1)>>]

RECURSIVE DetectedStrings(_, _)
\* the "Detected string" lines of dump_eeprom: the runs of bytes in 32..126;
\* ascii_buffer is the run collected so far
DetectedStrings(data, ascii_buffer) ==
    IF data = <<>> THEN (IF ascii_buffer = <<>> THEN <<>> ELSE <<ascii_buffer>>)
    ELSE IF Printable(Head(data))
    THEN DetectedStrings(Tail(data), Append(ascii_buffer, Head(data)))
    ELSE (IF ascii_buffer = <<>> THEN <<>> ELSE <<ascii_buffer>>)
            \o DetectedStrings(Tail(data), <<>>)

\* returns None; m.ret holds the strings it prints as detected
dump_eeprom(m, start, length) ==
    IF EEPROM_FILE \notin m.fs THEN Raise(m, "FileNotFoundError")
    ELSE IF start < 0 THEN Raise(m, "OSError")
    ELSE [log_action(Echo(m, "dump"), Event("DUMP", start, length))
            EXCEPT !.ret = DetectedStrings(FileRead(m.eeprom, start, length), <<>>)]

(***************************************************************************)
(* Delete and reset.  confirm is the answer to the "(y/n)" prompt.         *)
(***************************************************************************)
\* a delete that logs the deletion without erasing the byte
delete_single_byte_log_only(m, addr, confirm) ==
    IF addr < 0 \/ addr >= EEPROM_SIZE
    THEN Echo(m, "out_of_range")
    ELSE IF ~confirm
    THEN Echo(m, "cancelled")
    ELSE log_action(Echo(m, "deleted"), Event("DELETED_BYTE", addr, 1))

delete_single_byte(m, addr, confirm) ==
    IF addr < 0 \/ addr >= EEPROM_SIZE
    THEN Echo(m, "out_of_range")
    ELSE IF ~confirm
    THEN Echo(m, "cancelled")
    ELSE LET m1 == write_byte(m, addr, ERASED)
         IN  IF Raised(m1) THEN m1
             ELSE log_action(Echo(m1, "deleted"), Event("DELETED_BYTE", addr, 1))

delete_string(m, start_address, length, confirm) ==
    IF start_address < 0 \/ start_address + length > EEPROM_SIZE
    THEN Echo(m, "out_of_range")
    ELSE IF ~confirm
    THEN Echo(m, "cancelled")
    ELSE LET m1 == write_each(m, start_address, Repeat(ERASED, length))
         IN  IF Raised(m1) THEN m1
             ELSE log_action(Echo(m1, "deleted"), Event("DELETED_BLOCK", start_address, length))

RECURSIVE erase_from(_, _)
\* the loop of delete_all_written over data[i], i = Len(m.ret) .. len(data) - 1;
\* m.eeprom is the bytearray data, m.ret collects the addresses erased
erase_from(m, i) ==
    IF Raised(m) \/ i > Len(m.eeprom) THEN m
    ELSE IF m.eeprom[i] = ERASED THEN erase_from(m, i + 1)
    ELSE IF i > Len(m.wc) THEN Raise([m EXCEPT !.eeprom[i] = ERASED], "IndexError")
    ELSE erase_from([m EXCEPT !.eeprom[i] = ERASED, !.wc[i] = @ + 1,
                              !.ret = Append(@, i - 1)], i + 1)

delete_all_written(m, confirm) ==
    IF ~confirm
    THEN Echo(m, "cancelled")
    ELSE IF EEPROM_FILE \notin m.fs
    THEN Raise(m, "FileNotFoundError")
    ELSE LET m1 == erase_from(m, 1)
         IN  IF Raised(m1)
             \* the exception leaves the with block before f.write(data)
             THEN [m1 EXCEPT !.eeprom = m.eeprom]
             ELSE LET m2 == save_write_cycles(m1)
                  IN  IF Raised(m2) THEN m2
                      ELSE log_action(Echo(m2, "deleted"),
                                      Event("DELETED_ALL", 0, Len(m2.ret)))

reset_eeprom(m, confirm) ==
    IF ~confirm
    THEN Echo(m, "cancelled")
    ELSE LET default_text == Encode(get_default_text(m))
             m1 == get_default_text_fs(m)
             m2 == [m1 EXCEPT !.fs = @ \cup {EEPROM_FILE},
                              !.eeprom = SeedImage(default_text),
                              !.wc = Fill(EEPROM_SIZE, 0)]
             m3 == save_write_cycles(m2)
         IN  IF Raised(m3) THEN m3
             ELSE log_action(Echo(m3, "reset"), Event("RESET", 0, Len(default_text)))

(***************************************************************************)
(* Inputs of the menu.                                                     *)
(***************************************************************************)
\* addresses typed at the prompt: one below and one above the device as well
Addresses == -1 .. EEPROM_SIZE

\* byte values typed at the prompt: the terminator, a letter and the erased value
Values == {0, 65, ERASED}

\* code points of "A" and of U+0141, whose low byte is "A"
DataItems == {65, 321}

DataLists == UNION {[1..n -> DataItems] : n \in 0..MaxData}

Lengths == 0 .. EEPROM_SIZE

\* texts typed for the default text: empty, padded with a blank, filling the
\* device exactly with the terminator, and as long as the device
SeedTexts == {<<>>, <<32, 77>>, Fill(EEPROM_SIZE - 1, 77), Fill(EEPROM_SIZE, 77)}

(***************************************************************************)
(* The state machine.  Commit stores what the handler left behind; an      *)
(* uncaught exception ends the process.                                    *)
(***************************************************************************)
Op(name, address, data, m) ==
    [name |-> name, address |-> address, data |-> data,
     st |-> m.st, out |-> m.out, log |-> m.log, ret |-> m.ret]

Commit(m, name, address, data) ==
    /\ pc' = IF Raised(m) THEN "off" ELSE "returned"
    /\ fs' = m.fs
    /\ eeprom_bin' = m.eeprom
    /\ write_cycles_bin' = m.cycfile
    /\ default_text_txt' = m.txt
    /\ write_cycles' = m.wc
    /\ last_op' = Op(name, address, data, m)
    /\ UNCHANGED byteorder

\* before the first run: no file exists; write_cycles = [0] * EEPROM_SIZE is
\* what the module sets when it is loaded
Init ==
    /\ pc = "off"
    /\ fs = {}
    /\ eeprom_bin = <<>>
    /\ write_cycles_bin = <<>>
    /\ default_text_txt = <<>>
    /\ write_cycles = Fill(EEPROM_SIZE, 0)
    /\ last_op = [name |-> "none", address |-> 0, data |-> <<>>,
                  st |-> "ok", out |-> <<>>, log |-> <<>>, ret |-> <<>>]
    /\ byteorder = "little"

\* a new process: the module is loaded, main() calls init_eeprom()
Start ==
    /\ pc = "off"
    /\ Commit(init_eeprom([Machine EXCEPT !.wc = Fill(EEPROM_SIZE, 0)]), "init_eeprom", 0, <<>>)

\* menu choice 0
NoOp ==
    [name |-> "none", address |-> 0, data |-> <<>>,
     st |-> "ok", out |-> <<>>, log |-> <<>>, ret |-> <<>>]

\* the while loop of main() comes round: the menu is printed and a choice awaited
Menu ==
    /\ pc = "returned"
    /\ pc' = "menu"
    /\ last_op' = NoOp
    /\ UNCHANGED <<fs, eeprom_bin, write_cycles_bin, default_text_txt, write_cycles, byteorder>>

\* menu choice 0: main() returns and the process ends
Exit ==
    /\ pc = "menu"
    /\ pc' = "off"
    /\ last_op' = [NoOp EXCEPT !.name = "exit"]
    /\ UNCHANGED <<fs, eeprom_bin, write_cycles_bin, default_text_txt, write_cycles, byteorder>>

WriteByte ==
    /\ pc = "menu"
    /\ \E a \in Addresses, v \in Values :
          Commit(write_byte(Machine, a, v), "write_byte", a, <<v>>)

ReadByte ==
    /\ pc = "menu"
    /\ \E a \in Addresses : Commit(read_byte(Machine, a), "read_byte", a, <<>>)

WriteBytes ==
    /\ pc = "menu"
    /\ \E a \in Addresses, d \in DataLists :
          Commit(write_bytes(Machine, a, d), "write_bytes", a, d)

WriteString ==
    /\ pc = "menu"
    /\ \E a \in Addresses, t \in DataLists :
          Commit(write_string(Machine, a, t), "write_string", a, t)

ReadBytes ==
    /\ pc = "menu"
    /\ \E a \in Addresses, n \in Lengths :
          Commit(read_bytes(Machine, a, n), "read_bytes", a, <<n>>)

ReadString ==
    /\ pc = "menu"
    /\ \E a \in Addresses, n \in Lengths :
          Commit(read_string(Machine, a, n), "read_string", a, <<n>>)

ComputeChecksum ==
    /\ pc = "menu"
    /\ \E a \in Addresses, n \in Lengths :
          Commit(compute_checksum(Machine, a, n), "compute_checksum", a, <<n>>)

DumpEeprom ==
    /\ pc = "menu"
    /\ \E a \in Addresses, n \in Lengths :
          Commit(dump_eeprom(Machine, a, n), "dump_eeprom", a, <<n>>)

\* main() has returned after choice 0 and the code that called it (round.py
\* runs main() only under the __main__ guard) calls write_byte
CallAfterExit ==
    /\ pc = "off"
    /\ last_op.name = "exit"
    /\ \E a \in Addresses, v \in Values :
          LET m == write_byte(Machine, a, v)
          IN  /\ pc' = "off"
              /\ fs' = m.fs
              /\ eeprom_bin' = m.eeprom
              /\ write_cycles_bin' = m.cycfile
              /\ default_text_txt' = m.txt
              /\ write_cycles' = m.wc
              /\ last_op' = Op("write_byte_after_exit", a, <<v>>, m)
              /\ UNCHANGED byteorder

DeleteSingleByte ==
    /\ pc = "menu"
    /\ \E a \in Addresses, confirm \in BOOLEAN :
          Commit(delete_single_byte(Machine, a, confirm), "delete_single_byte", a, <<>>)

DeleteString ==
    /\ pc = "menu"
    /\ \E a \in Addresses, n \in Lengths, confirm \in BOOLEAN :
          Commit(delete_string(Machine, a, n, confirm), "delete_string", a, <<n>>)

DeleteAllWritten ==
    /\ pc = "menu"
    /\ \E confirm \in BOOLEAN :
          Commit(delete_all_written(Machine, confirm), "delete_all_written", 0, <<>>)

ResetEeprom ==
    /\ pc = "menu"
    /\ \E confirm \in BOOLEAN :
          Commit(reset_eeprom(Machine, confirm), "reset_eeprom", 0, <<>>)

ChangeDefaultText ==
    /\ pc = "menu"
    /\ \E t \in SeedTexts :
          Commit(change_default_text(Machine, t), "change_default_text", 0, t)

Next ==
    \/ Start
    \/ Menu
    \/ Exit
    \/ WriteByte
    \/ ReadByte
    \/ WriteBytes
    \/ WriteString
    \/ ReadBytes
    \/ ReadString
    \/ ComputeChecksum
    \/ DumpEeprom
    \/ CallAfterExit
    \/ DeleteSingleByte
    \/ DeleteString
    \/ DeleteAllWritten
    \/ ResetEeprom
    \/ ChangeDefaultText

Spec == Init /\ [][Next]_vars

(***************************************************************************)
(* Records.  eeprom.py, wonn.py, won.py and FINA.py are Tk programs that    *)
(* store ctypes structures in the same file eeprom.bin; fiNAL.py packs its *)
(* SensorData with the struct module.  The store of these programs is      *)
(* scaled from 1024 to STRUCT_EEPROM_SIZE bytes.                           *)
(***************************************************************************)
STRUCT_EEPROM_SIZE == 9

\* a c_uint16 / c_uint32 field in the byte order of the platform
UInt16(v, order) ==
    IF order = "little" THEN <<v % 256, v \div 256>> ELSE <<v \div 256, v % 256>>

UInt32(v, order) ==
    IF order = "little"
    THEN <<v % 256, (v \div 256) % 256, (v \div 65536) % 256, v \div 16777216>>
    ELSE <<v \div 16777216, (v \div 65536) % 256, (v \div 256) % 256, v % 256>>

FromUInt16(b, order) ==
    IF order = "little" THEN b[1] + 256 * b[2] ELSE 256 * b[1] + b[2]

\* EEPROMStruct(id, value, flag): ctypes keeps the low bits of each field
EEPROMStruct(id, value, flag) ==
    [id |-> id % 256, value |-> value % 65536, flag |-> flag % 256]

\* union.raw after union.data = s.  The structure has no _pack_, so ctypes
\* aligns value on 2 bytes: id at 0, a pad byte, value at 2, flag at 4, and a
\* trailing pad byte; the pad bytes of a new structure are 0.
EEPROMUnion_raw(s, order) == <<s.id, 0>> \o UInt16(s.value, order) \o <<s.flag, 0>>

\* union.data decoded at the offsets of a layout without padding
EEPROMUnion_data_packed(raw, order) ==
    [id |-> raw[1], value |-> FromUInt16(<<raw[2], raw[3]>>, order), flag |-> raw[4]]

\* union.data after the bytes of union.raw have been set
EEPROMUnion_data(raw, order) ==
    [id |-> raw[1], value |-> FromUInt16(<<raw[3], raw[4]>>, order), flag |-> raw[5]]

\* ctypes.sizeof(union)
sizeof_EEPROMUnion == Len(EEPROMUnion_raw(EEPROMStruct(0, 0, 0), "little"))

\* DataStruct(address, value, timestamp) of FINA.py; the timestamp is
\* int(time.time()), which fits its 32 bits
DataStruct(address, value, timestamp) ==
    [address |-> address % 65536, value |-> value % 256, timestamp |-> timestamp]

\* bytes(du.raw): address at 0, value at 2, a pad byte, timestamp aligned at 4
DataUnion_raw(s, order) ==
    UInt16(s.address, order) \o <<s.value, 0>> \o UInt32(s.timestamp, order)

RECURSIVE SeekWriteAll(_, _, _)
\* f.seek(pos); f.write(data) on a file opened "r+b"
SeekWriteAll(file, pos, data) ==
    IF data = <<>> THEN file
    ELSE SeekWriteAll(SeekWrite(file, pos, Head(data)), pos + 1, Tail(data))

\* for i in range(len(raw_data)): union.raw[i] = raw_data[i]; the rest stays 0
FillRaw(raw_data, size) ==
    [i \in 1..size |-> IF i <= Len(raw_data) THEN raw_data[i] ELSE 0]

\* ensure_eeprom() of eeprom.py and wonn.py, init_eeprom() of FINA.py
ensure_eeprom(m) ==
    IF EEPROM_FILE \in m.fs THEN m
    ELSE log_action([m EXCEPT !.fs = @ \cup {EEPROM_FILE},
                              !.eeprom = Repeat(ERASED, STRUCT_EEPROM_SIZE)],
                    Event("CREATED", 0, STRUCT_EEPROM_SIZE))

\* eeprom.py
eeprom_write_struct(m, address, struct_obj, order) ==
    LET raw == EEPROMUnion_raw(struct_obj, order)
    IN  IF address + Len(raw) > STRUCT_EEPROM_SIZE
        THEN log_action(Echo(m, "struct_too_big"), Event("ERROR", address, Len(raw)))
        ELSE IF EEPROM_FILE \notin m.fs THEN Raise(m, "FileNotFoundError")
        ELSE log_action(Echo([m EXCEPT !.eeprom = SeekWriteAll(@, address, raw)], "written"),
                        Event("STRUCT_WRITE", address, Len(raw)))

eeprom_read_struct(m, address, order) ==
    IF address + sizeof_EEPROMUnion > STRUCT_EEPROM_SIZE
    THEN log_action(Echo(m, "read_exceeds"), Event("ERROR", address, sizeof_EEPROMUnion))
    ELSE IF EEPROM_FILE \notin m.fs THEN Raise(m, "FileNotFoundError")
    ELSE LET data == FileRead(m.eeprom, address, sizeof_EEPROMUnion)
         IN  IF Len(data) < sizeof_EEPROMUnion THEN Raise(m, "IndexError")
             ELSE [log_action(Echo(m, "read"), Event("STRUCT_READ", address, sizeof_EEPROMUnion))
                     EXCEPT !.ret = <<EEPROMUnion_data(data, order)>>]

\* wonn.py
wonn_write_bytes(m, address, data_list) ==
    IF address + Len(data_list) > STRUCT_EEPROM_SIZE
    THEN log_action(Echo(m, "data_exceeds"), Event("ERROR", address, Len(data_list)))
    ELSE IF EEPROM_FILE \notin m.fs THEN Raise(m, "FileNotFoundError")
    ELSE IF \E i \in 1..Len(data_list) : data_list[i] < 0 \/ data_list[i] > 255
         THEN Raise(m, "ValueError")
    ELSE log_action(Echo([m EXCEPT !.eeprom = SeekWriteAll(@, address, data_list)], "written"),
                    Event("WRITE_BYTES", address, Len(data_list)))

\* returns the list in m.ret; None is the empty m.ret with "read_exceeds" told
wonn_read_bytes(m, address, length) ==
    IF address + length > STRUCT_EEPROM_SIZE
    THEN log_action(Echo(m, "read_exceeds"), Event("ERROR", address, length))
    ELSE IF EEPROM_FILE \notin m.fs THEN Raise(m, "FileNotFoundError")
    ELSE [log_action(Echo(m, "read"), Event("READ_BYTES", address, length))
            EXCEPT !.ret = FileRead(m.eeprom, address, length)]

wonn_write_struct(m, address, struct_obj, order) ==
    LET m1 == wonn_write_bytes(m, address, EEPROMUnion_raw(struct_obj, order))
    IN  IF Raised(m1) THEN m1
        ELSE log_action(m1, Event("STRUCT_WRITE", address, sizeof_EEPROMUnion))

wonn_read_struct(m, address, order) ==
    LET m1 == wonn_read_bytes(m, address, sizeof_EEPROMUnion)
    IN  IF Raised(m1) \/ m1.out # <<"read">> THEN m1
        ELSE [log_action(m1, Event("STRUCT_READ", address, sizeof_EEPROMUnion))
                EXCEPT !.ret = <<EEPROMUnion_data(FillRaw(m1.ret, sizeof_EEPROMUnion), order)>>]

\* won.py: read_bytes has no check of start_address + length against the size
won_read_bytes(m, start_address, length) ==
    IF EEPROM_FILE \notin m.fs THEN Raise(m, "FileNotFoundError")
    ELSE [log_action(Echo(m, "read"), Event("READ_BYTES", start_address, length))
            EXCEPT !.ret = FileRead(m.eeprom, start_address, length)]

won_read_struct(m, start_address, order) ==
    LET m1 == won_read_bytes(m, start_address, sizeof_EEPROMUnion)
    IN  IF Raised(m1) THEN m1
        ELSE [log_action(m1, Event("STRUCT_READ", start_address, Len(m1.ret)))
                EXCEPT !.ret = <<EEPROMUnion_data(FillRaw(m1.ret, sizeof_EEPROMUnion), order)>>]

\* FINA.py
write_structure(m, addr, val, ts, order) ==
    LET packed == DataUnion_raw(DataStruct(addr, val, ts), order)
    IN  IF addr + Len(packed) > STRUCT_EEPROM_SIZE THEN Echo(m, "structure_exceeds")
        ELSE IF EEPROM_FILE \notin m.fs THEN Echo(m, "error")
        ELSE log_action(Echo([m EXCEPT !.eeprom = SeekWriteAll(@, addr, packed)], "written"),
                        Event("STRUCTURE_WRITE", addr, val))

\* fiNAL.py: the widths of the fields of the format "<Hff"
SENSOR_FORMAT == <<2, 4, 4>>

calcsize == SENSOR_FORMAT[1] + SENSOR_FORMAT[2] + SENSOR_FORMAT[3]

\* SensorData.unpack(data); a float is kept as the 32 bits that encode it
SensorData_unpack(m, data) ==
    IF Len(data) # calcsize THEN Raise(m, "struct.error")
    ELSE [m EXCEPT !.ret = <<[sensor_id |-> FromUInt16(SubSeq(data, 1, 2), "little"),
                             temperature |-> SubSeq(data, 3, 6),
                             humidity |-> SubSeq(data, 7, 10)]>>]

\* fiNAL.py DataUnion.  A float is kept as sign, odd significand and binary
\* exponent (the value sig * 2^exp), or by its class when it is not finite.
RECURSIVE Dyadic(_, _, _)
Dyadic(sign, sig, exp) ==
    IF sig = 0 THEN [class |-> "zero", sign |-> sign, sig |-> 0, exp |-> 0]
    ELSE IF sig % 2 = 0 THEN Dyadic(sign, sig \div 2, exp + 1)
    ELSE [class |-> "finite", sign |-> sign, sig |-> sig, exp |-> exp]

\* the IEEE-754 single whose most significant byte is b3 and least b0
Single(b3, b2, b1, b0) ==
    LET sign == b3 \div 128
        e == (b3 % 128) * 2 + b2 \div 128
        frac == (b2 % 128) * 65536 + b1 * 256 + b0
    IN  IF e = 255
        THEN [class |-> IF frac = 0 THEN "inf" ELSE "nan", sign |-> sign, sig |-> frac, exp |-> 0]
        ELSE IF e = 0 THEN Dyadic(sign, frac, -149)
        ELSE Dyadic(sign, 8388608 + frac, e - 150)

\* struct.unpack(">f", b)[0]
unpack_f_big_endian(b) == Single(b[1], b[2], b[3], b[4])

\* struct.unpack("<f", b)[0]
unpack_f(b) == Single(b[4], b[3], b[2], b[1])

\* struct.pack("<I", value)
pack_I(value) == UInt32(value, "little")

\* DataUnion(value).as_float()
as_float(m, value) ==
    IF value < 0 THEN Raise(m, "struct.error")
    ELSE [m EXCEPT !.ret = <<unpack_f(pack_I(value))>>]

StructAddresses == 0 .. STRUCT_EEPROM_SIZE
UnionValues == {0, 1, 1065353216, 1120403456, 1120403457, 2139095040}
StructIds == {1, 255}
StructValues == {258, 65535}
StructFlags == {0, 3}
StructureAddrs == {0, 1, 2}
StructureVals == {7}
Timestamps == {16909060}
PackedInputs == {<<>>, Fill(9, 1), <<1, 2>> \o Fill(8, 0), <<1, 2, 0, 0, 200, 66, 0, 0, 32, 66>>, Fill(11, 1)}

\* a Tk callback has returned; an exception in it is reported and the main
\* loop goes on
CommitGui(m, name, address, data) ==
    /\ pc' = "returned"
    /\ fs' = m.fs
    /\ eeprom_bin' = m.eeprom
    /\ last_op' = Op(name, address, data, m)
    /\ UNCHANGED <<write_cycles_bin, default_text_txt, write_cycles, byteorder>>

InitStruct ==
    /\ pc = "off"
    /\ fs = {}
    /\ eeprom_bin = <<>>
    /\ write_cycles_bin = <<>>
    /\ default_text_txt = <<>>
    /\ write_cycles = Fill(EEPROM_SIZE, 0)
    /\ last_op = NoOp
    /\ byteorder \in {"little", "big"}

\* a program is started: the file is created when it is missing
Launch ==
    /\ pc = "off"
    /\ CommitGui(ensure_eeprom(Machine), "ensure_eeprom", 0, <<>>)

\* root.mainloop() waits for the next event
Mainloop ==
    /\ pc = "returned"
    /\ pc' = "menu"
    /\ last_op' = NoOp
    /\ UNCHANGED <<fs, eeprom_bin, write_cycles_bin, default_text_txt, write_cycles, byteorder>>

\* the window is closed
ExitGui ==
    /\ pc = "menu"
    /\ pc' = "off"
    /\ last_op' = [NoOp EXCEPT !.name = "exit"]
    /\ UNCHANGED <<fs, eeprom_bin, write_cycles_bin, default_text_txt, write_cycles, byteorder>>

EepromWriteStruct ==
    /\ pc = "menu"
    /\ \E a \in StructAddresses, id \in StructIds, value \in StructValues, flag \in StructFlags :
          CommitGui(eeprom_write_struct(Machine, a, EEPROMStruct(id, value, flag), byteorder),
                    "eeprom_write_struct", a, <<id, value, flag>>)

EepromReadStruct ==
    /\ pc = "menu"
    /\ \E a \in StructAddresses :
          CommitGui(eeprom_read_struct(Machine, a, byteorder), "eeprom_read_struct", a, <<>>)

WonnWriteStruct ==
    /\ pc = "menu"
    /\ \E a \in StructAddresses, id \in StructIds, value \in StructValues, flag \in StructFlags :
          CommitGui(wonn_write_struct(Machine, a, EEPROMStruct(id, value, flag), byteorder),
                    "wonn_write_struct", a, <<id, value, flag>>)

WonnReadStruct ==
    /\ pc = "menu"
    /\ \E a \in StructAddresses :
          CommitGui(wonn_read_struct(Machine, a, byteorder), "wonn_read_struct", a, <<>>)

WonReadStruct ==
    /\ pc = "menu"
    /\ \E a \in StructAddresses :
          CommitGui(won_read_struct(Machine, a, byteorder), "won_read_struct", a, <<>>)

WriteStructure ==
    /\ pc = "menu"
    /\ \E addr \in StructureAddrs, val \in StructureVals, ts \in Timestamps :
          CommitGui(write_structure(Machine, addr, val, ts, byteorder),
                    "write_structure", addr, <<val, ts>>)

SensorDataUnpack ==
    /\ pc = "menu"
    /\ \E data \in PackedInputs :
          CommitGui(SensorData_unpack(Machine, data), "SensorData_unpack", 0, data)

DataUnionAsFloat ==
    /\ pc = "menu"
    /\ \E value \in UnionValues :
          CommitGui(as_float(Machine, value), "as_float", 0, <<value>>)

NextStruct ==
    \/ Launch
    \/ Mainloop
    \/ ExitGui
    \/ EepromWriteStruct
    \/ EepromReadStruct
    \/ WonnWriteStruct
    \/ WonnReadStruct
    \/ WonReadStruct
    \/ WriteStructure
    \/ SensorDataUnpack
    \/ DataUnionAsFloat

SpecStruct == InitStruct /\ [][NextStruct]_vars

(***************************************************************************)
(* won.py, the Tk program with endurance tracking.  It keeps eeprom.bin and *)
(* write_cycles.bin as round.py does; its seed text is fixed.  An exception *)
(* raised in a button callback is reported by Tk and the main loop goes on; *)
(* one raised by init_eeprom(), which runs before the main loop, ends the   *)
(* program.                                                                *)
(***************************************************************************)
won_init_eeprom(m) ==
    IF EEPROM_FILE \in m.fs /\ WRITE_CYCLE_FILE \in m.fs
    THEN IF Len(m.eeprom) # EEPROM_SIZE THEN Raise(m, "FileNotFoundError")
         ELSE log_action(Echo([m EXCEPT !.wc = m.cycfile], "loaded"), Event("LOADED", 0, 0))
    ELSE log_action(Echo([m EXCEPT !.fs = @ \cup {EEPROM_FILE, WRITE_CYCLE_FILE},
                                   !.eeprom = SeedImage(MISSION_COMPLETE),
                                   !.cycfile = Fill(EEPROM_SIZE, 0)], "initialized"),
                    Event("INIT_FRESH", 0, Len(MISSION_COMPLETE)))

won_save_write_cycles(m) == save_write_cycles(m)

won_write_byte(m, address, value) ==
    IF Raised(m) THEN m
    ELSE IF ~(0 <= address /\ address < EEPROM_SIZE)
    THEN log_action(Echo(m, "out_of_range"), Event("ERROR", address, value))
    ELSE IF address + 1 > Len(m.wc) THEN Raise(m, "IndexError")
    ELSE IF m.wc[address + 1] >= MAX_WRITE_CYCLES
    THEN log_action(Echo(m, "max_write_cycles"), Event("ERROR", address, value))
    ELSE IF EEPROM_FILE \notin m.fs THEN Raise(m, "FileNotFoundError")
    ELSE LET m1 == [m EXCEPT !.eeprom = SeekWrite(@, address, value % (BYTE_MASK + 1)),
                             !.wc[address + 1] = @ + 1]
             m2 == won_save_write_cycles(m1)
         IN  IF Raised(m2) THEN m2
             ELSE log_action(Echo(m2, "wrote"), Event("WRITE", address, value))

RECURSIVE won_write_each(_, _, _)
\* for offset, val in enumerate(byte_list): write_byte(start_address + offset, val)
won_write_each(m, start_address, byte_list) ==
    IF Raised(m) \/ byte_list = <<>> THEN m
    ELSE won_write_each(won_write_byte(m, start_address, Head(byte_list)),
                        start_address + 1, Tail(byte_list))

won_write_bytes(m, start_address, byte_list) ==
    LET m1 == won_write_each(m, start_address, byte_list)
    IN  IF Raised(m1) THEN m1
        ELSE log_action(m1, Event("WRITE_BLOCK", start_address, Len(byte_list)))

\* a delete that erases the byte without the checks of write_byte
won_delete_byte_unchecked(m, address) ==
    IF ~(0 <= address /\ address < Len(m.wc)) THEN won_write_byte(m, address, ERASED)
    ELSE LET m1 == [m EXCEPT !.eeprom = SeekWrite(@, address, ERASED),
                             !.wc[address + 1] = @ + 1]
             m2 == won_save_write_cycles(m1)
         IN  IF Raised(m2) THEN m2
             ELSE log_action(m2, Event("DELETE", address, 1))

won_delete_byte(m, address) ==
    LET m1 == won_write_byte(m, address, ERASED)
    IN  IF Raised(m1) THEN m1
        ELSE log_action(m1, Event("DELETE", address, 1))

won_reset_eeprom(m) ==
    LET m1 == won_write_bytes(m, 0, Repeat(ERASED, EEPROM_SIZE))
    IN  IF Raised(m1) THEN m1
        ELSE log_action(m1, Event("RESET", 0, EEPROM_SIZE))

\* the files found by the first start: none, or the pair that round.py leaves
\* after a reset with a seed text of EEPROM_SIZE characters
FoundFiles ==
    {[fs |-> {}, eeprom |-> <<>>, cycfile |-> <<>>, txt |-> <<>>],
     [fs |-> {EEPROM_FILE, WRITE_CYCLE_FILE, DEFAULT_TEXT_FILE},
      eeprom |-> SeedImage(Fill(EEPROM_SIZE, 77)), cycfile |-> Fill(EEPROM_SIZE, 0),
      txt |-> Fill(EEPROM_SIZE, 77)]}

CommitWon(m, name, address, data) ==
    /\ pc' = "returned"
    /\ fs' = m.fs
    /\ eeprom_bin' = m.eeprom
    /\ write_cycles_bin' = m.cycfile
    /\ write_cycles' = m.wc
    /\ last_op' = Op(name, address, data, m)
    /\ UNCHANGED <<default_text_txt, byteorder>>

InitWon ==
    /\ pc = "off"
    /\ \E found \in FoundFiles :
          /\ fs = found.fs
          /\ eeprom_bin = found.eeprom
          /\ write_cycles_bin = found.cycfile
          /\ default_text_txt = found.txt
    /\ write_cycles = Fill(EEPROM_SIZE, 0)
    /\ last_op = NoOp
    /\ byteorder = "little"

\* the program is started: write_cycles = [0] * EEPROM_SIZE, then init_eeprom()
WonLaunch ==
    /\ pc = "off"
    /\ LET m == won_init_eeprom([Machine EXCEPT !.wc = Fill(EEPROM_SIZE, 0)])
       IN  /\ pc' = IF Raised(m) THEN "off" ELSE "returned"
           /\ fs' = m.fs
           /\ eeprom_bin' = m.eeprom
           /\ write_cycles_bin' = m.cycfile
           /\ write_cycles' = m.wc
           /\ last_op' = Op("won_init_eeprom", 0, <<>>, m)
           /\ UNCHANGED <<default_text_txt, byteorder>>

WonWriteByte ==
    /\ pc = "menu"
    /\ \E a \in Addresses, v \in Values :
          CommitWon(won_write_byte(Machine, a, v), "won_write_byte", a, <<v>>)

WonWriteBytes ==
    /\ pc = "menu"
    /\ \E a \in Addresses, d \in DataLists :
          CommitWon(won_write_bytes(Machine, a, d), "won_write_bytes", a, d)

WonDeleteByte ==
    /\ pc = "menu"
    /\ \E a \in Addresses :
          CommitWon(won_delete_byte(Machine, a), "won_delete_byte", a, <<>>)

WonResetEeprom ==
    /\ pc = "menu"
    /\ CommitWon(won_reset_eeprom(Machine), "won_reset_eeprom", 0, <<>>)

NextWon ==
    \/ WonLaunch
    \/ Mainloop
    \/ ExitGui
    \/ WonWriteByte
    \/ WonWriteBytes
    \/ WonDeleteByte
    \/ WonResetEeprom

SpecWon == InitWon /\ [][NextWon]_vars

(***************************************************************************)
(* Properties.                                                             *)
(***************************************************************************)
InRange(a) == a >= 0 /\ a < EEPROM_SIZE

Running == pc \in {"menu", "returned"}

IsByte(v) == v >= 0 /\ v <= 255

\* the outcome of a write_byte call that was accepted and returned
Accepted(op) == op.st = "ok" /\ op.out = <<"wrote">>

\* C1: read_byte(a), called directly after write_byte(a, v) with a in range and
\* v in 0..255, returns v: the write returns to the menu and the read finds v.
C1_ReadBackAfterWrite ==
    (last_op.name = "write_byte" /\ InRange(last_op.address) /\ IsByte(last_op.data[1]))
        => /\ pc = "returned"
           /\ read_byte(Machine, last_op.address).ret = last_op.data

\* C2: a write_byte to an address in range is accepted while the count of the
\* address is below MAX_WRITE_CYCLES, counting one more write in memory and in
\* the persisted store; at MAX_WRITE_CYCLES it is rejected as exhausted and
\* leaves the byte and the count as they were.
C2_CeilingEnforced ==
    [][(last_op'.name = "write_byte" /\ InRange(last_op'.address))
          => LET a == last_op'.address + 1
             IN  IF write_cycles[a] < MAX_WRITE_CYCLES
                 THEN /\ Accepted(last_op')
                      /\ write_cycles'[a] = write_cycles[a] + 1
                      /\ write_cycles_bin' = write_cycles'
                 ELSE /\ last_op'.st = "ok"
                      /\ last_op'.out = <<"max_write_cycles">>
                      /\ eeprom_bin' = eeprom_bin
                      /\ write_cycles'[a] = MAX_WRITE_CYCLES
                      /\ write_cycles_bin' = write_cycles_bin]_vars

\* C3: a restart (init_eeprom run by a new process on the files an earlier
\* process left) leaves the image as it was and loads the counts the earlier
\* process had.
C3_RestartKeepsImageAndCounts ==
    [][(pc = "off" /\ last_op.name # "none" /\ last_op'.name = "init_eeprom")
          => /\ eeprom_bin' = eeprom_bin
             /\ write_cycles' = write_cycles]_vars

\* C4: write_bytes(start, data) is all-or-nothing: afterwards every address
\* start .. start + len(data) - 1 holds its new byte, or the image is the one
\* before the call.
C4_BlockWriteAllOrNothing ==
    [][(last_op'.name = "write_bytes")
          => \/ eeprom_bin' = eeprom_bin
             \/ \A i \in 1..Len(last_op'.data) :
                   /\ InRange(last_op'.address + i - 1)
                   /\ eeprom_bin'[last_op'.address + i] = last_op'.data[i] % (BYTE_MASK + 1)]_vars

\* C5: write_byte(a, v) with a < 0 or a >= EEPROM_SIZE is reported as out of
\* range and changes no image byte and no count, in memory or in the files.
C5_OutOfRangeWriteChangesNothing ==
    [][(last_op'.name = "write_byte" /\ ~InRange(last_op'.address))
          => /\ last_op'.st = "ok"
             /\ last_op'.out = <<"out_of_range">>
             /\ UNCHANGED <<fs, eeprom_bin, write_cycles_bin, write_cycles>>]_vars

\* a write_byte at address EEPROM_SIZE has been reported as out of range
C5_Witness ==
    /\ last_op.name = "write_byte"
    /\ last_op.address = EEPROM_SIZE
    /\ last_op.out = <<"out_of_range">>

\* C6: after a confirmed reset_eeprom the image is the seed text, one 0x00, and
\* 0xFF in every remaining cell, and every count is 0 in memory and in the
\* persisted store.
C6_ResetState ==
    (last_op.name = "reset_eeprom" /\ last_op.out # <<"cancelled">>)
        => LET seed == Encode(Strip(default_text_txt))
               n == Len(seed)
           IN  /\ pc = "returned"
               /\ DEFAULT_TEXT_FILE \in fs
               /\ Len(eeprom_bin) > n
               /\ SubSeq(eeprom_bin, 1, n) = seed
               /\ eeprom_bin[n + 1] = TERMINATOR
               /\ \A i \in (n + 2)..Len(eeprom_bin) : eeprom_bin[i] = ERASED
               /\ \A i \in 1..EEPROM_SIZE : write_cycles[i] = 0
               /\ Len(write_cycles) = EEPROM_SIZE
               /\ write_cycles_bin = write_cycles

\* a confirmed reset with a non-empty seed that leaves erased cells behind it
C6_Witness ==
    /\ last_op.name = "reset_eeprom"
    /\ last_op.out = <<"reset">>
    /\ Strip(default_text_txt) # <<>>
    /\ Len(eeprom_bin) > Len(Strip(default_text_txt)) + 1

\* C7: once init_eeprom has run, the persisted image has exactly EEPROM_SIZE bytes.
C7_ImageLength ==
    (EEPROM_FILE \in fs) => Len(eeprom_bin) = EEPROM_SIZE

\* C8: the count of an address never decreases, except through reset_eeprom.
C8_CountsMonotone ==
    [][(last_op'.name # "reset_eeprom")
          => \A i \in 1..EEPROM_SIZE : write_cycles'[i] >= write_cycles[i]]_vars

\* C10: after init_eeprom and after every completed operation (the process is
\* in its menu loop) the persisted endurance store has EEPROM_SIZE entries and
\* entry i is write_cycles[i].
C10_StoreMatchesTable ==
    Running
        => /\ WRITE_CYCLE_FILE \in fs
           /\ Len(write_cycles_bin) = EEPROM_SIZE
           /\ \A i \in 1..EEPROM_SIZE : write_cycles_bin[i] = write_cycles[i]

\* a write_byte has returned having counted a write
C10_Witness ==
    /\ pc = "returned"
    /\ last_op.name = "write_byte"
    /\ Accepted(last_op)
    /\ write_cycles[last_op.address + 1] > 0

\* C11: init_eeprom: when eeprom.bin and write_cycles.bin both exist and each
\* holds exactly EEPROM_SIZE bytes, both files are left as they are and
\* write_cycles is loaded from write_cycles.bin; in every other case the image
\* becomes the seed text, one 0x00 and 0xFF in every remaining cell, and the
\* counts become all zero, in memory and in write_cycles.bin.
C11_InitLoadsOrSeeds ==
    [][(last_op'.name = "init_eeprom")
          => IF /\ EEPROM_FILE \in fs /\ Len(eeprom_bin) = EEPROM_SIZE
                /\ WRITE_CYCLE_FILE \in fs /\ Len(write_cycles_bin) = EEPROM_SIZE
             THEN /\ UNCHANGED <<fs, eeprom_bin, write_cycles_bin>>
                  /\ write_cycles' = write_cycles_bin
             ELSE LET seed == Encode(Strip(default_text_txt'))
                      n == Len(seed)
                  IN  /\ {EEPROM_FILE, WRITE_CYCLE_FILE} \subseteq fs'
                      /\ Len(eeprom_bin') > n
                      /\ SubSeq(eeprom_bin', 1, n) = seed
                      /\ eeprom_bin'[n + 1] = TERMINATOR
                      /\ \A i \in (n + 2)..Len(eeprom_bin') : eeprom_bin'[i] = ERASED
                      /\ write_cycles' = [i \in 1..EEPROM_SIZE |-> 0]
                      /\ write_cycles_bin' = write_cycles']_vars

\* a restart has loaded counts that an earlier process persisted
C11_Witness ==
    /\ last_op.name = "init_eeprom"
    /\ last_op.out = <<"loaded">>
    /\ \E i \in 1..EEPROM_SIZE : write_cycles[i] > 0
    /\ write_cycles = write_cycles_bin

\* every code point of text is printable ASCII
PrintableText(text) == \A i \in 1..Len(text) : 32 <= text[i] /\ text[i] <= 126

\* C12: for a printable text t and an address a with a + len(t) < EEPROM_SIZE
\* and no cell of a .. a + len(t) exhausted, write_string(a, t) returns, after
\* which read_string(a, len(t)) returns t and the byte at a + len(t) is 0x00.
C12_StringRoundTrip ==
    [][(/\ last_op'.name = "write_string"
        /\ PrintableText(last_op'.data)
        /\ last_op'.address >= 0
        /\ last_op'.address + Len(last_op'.data) < EEPROM_SIZE
        /\ \A i \in last_op'.address .. last_op'.address + Len(last_op'.data) :
              write_cycles[i + 1] < MAX_WRITE_CYCLES)
          => /\ pc' = "returned"
             /\ read_string(Machine', last_op'.address, Len(last_op'.data)).ret = last_op'.data
             /\ eeprom_bin'[last_op'.address + Len(last_op'.data) + 1] = TERMINATOR]_vars

\* C13: write_string(a, text) with a + len(text) + 1 > EEPROM_SIZE is reported
\* as out of range and changes no image byte and no count.
C13_StringOverflowChangesNothing ==
    [][(/\ last_op'.name = "write_string"
        /\ last_op'.address + Len(last_op'.data) + 1 > EEPROM_SIZE)
          => /\ \E i \in 1..Len(last_op'.out) : last_op'.out[i] = "out_of_range"
             /\ UNCHANGED <<eeprom_bin, write_cycles, write_cycles_bin>>]_vars

RECURSIVE ImageSum(_, _)
\* the sum of the image bytes at the positions lo .. hi of eeprom.bin
ImageSum(lo, hi) == IF lo > hi THEN 0 ELSE eeprom_bin[lo] + ImageSum(lo + 1, hi)

\* C14: compute_checksum(start, length) with 0 <= start and
\* start + length <= EEPROM_SIZE returns the sum of the image bytes at
\* start .. start + length - 1 modulo 256, a value in 0..255.
C14_ChecksumIsSumMod256 ==
    (/\ last_op.name = "compute_checksum"
     /\ last_op.address >= 0
     /\ last_op.address + last_op.data[1] <= EEPROM_SIZE)
        => /\ last_op.st = "ok"
           /\ Len(last_op.ret) = 1
           /\ IsByte(last_op.ret[1])
           /\ last_op.ret[1]
                = ImageSum(last_op.address + 1, last_op.address + last_op.data[1]) % 256

\* a checksum has been taken over cells whose sum exceeds one byte
C14_Witness ==
    /\ last_op.name = "compute_checksum"
    /\ last_op.address >= 0
    /\ last_op.address + last_op.data[1] <= EEPROM_SIZE
    /\ ImageSum(last_op.address + 1, last_op.address + last_op.data[1]) > 255
    /\ last_op.ret = <<ImageSum(last_op.address + 1, last_op.address + last_op.data[1]) % 256>>

CoreOperations ==
    {"write_byte", "write_bytes", "write_string", "read_byte", "read_bytes",
     "read_string", "compute_checksum", "delete_single_byte", "delete_string",
     "delete_all_written", "reset_eeprom"}

\* C18: every core operation returns to its caller without raising, and the
\* process is back in its menu loop, ready for the next operation.
C18_OperationsReturn ==
    (last_op.name \in CoreOperations) => (last_op.st = "ok" /\ pc = "returned")

\* C19: when write_byte(a, v) finishes, normally or with an error, the image
\* byte at a differs from its value before the call only if the count of a in
\* write_cycles.bin is exactly one more than before the call.
C19_ImageAndStoreInStep ==
    [][(last_op'.name = "write_byte" /\ InRange(last_op'.address))
          => LET a == last_op'.address + 1
             IN  (eeprom_bin'[a] # eeprom_bin[a])
                    => /\ Len(write_cycles_bin') >= a
                       /\ write_cycles_bin'[a] = write_cycles_bin[a] + 1]_vars

\* the record (id, value, flag) given to the write_struct that produced this state
WrittenRecord ==
    [id |-> last_op.data[1], value |-> last_op.data[2], flag |-> last_op.data[3]]

\* C15: for an address a with 0 <= a and a + sizeof(record) <= EEPROM_SIZE and
\* a record of id in 0..255, value in 0..65535, flag in 0..255, read_struct(a)
\* called directly after write_struct(a, r) returns a record with the same id,
\* value and flag, in eeprom.py and in wonn.py.
C15_RecordRoundTrip ==
    /\ (/\ last_op.name = "eeprom_write_struct"
        /\ last_op.address + sizeof_EEPROMUnion <= STRUCT_EEPROM_SIZE)
          => eeprom_read_struct(Machine, last_op.address, byteorder).ret = <<WrittenRecord>>
    /\ (/\ last_op.name = "wonn_write_struct"
        /\ last_op.address + sizeof_EEPROMUnion <= STRUCT_EEPROM_SIZE)
          => wonn_read_struct(Machine, last_op.address, byteorder).ret = <<WrittenRecord>>

\* a record with a two-byte value has been written at a non-zero address
C15_Witness ==
    /\ last_op.name = "eeprom_write_struct"
    /\ last_op.out = <<"written">>
    /\ last_op.address > 0
    /\ last_op.data[2] > 255
    /\ last_op.data[1] # last_op.data[3]

\* the image after the bytes of packed have been stored from address a on and
\* no other cell has been touched
Overlay(image, a, packed) ==
    [i \in 1..Len(image) |->
        IF i > a /\ i <= a + Len(packed) THEN packed[i - a] ELSE image[i]]

\* C16: the bytes written for a record are dense and little-endian with no
\* padding: write_struct writes exactly the 4 bytes [id, value mod 256,
\* value div 256, flag], and write_structure of FINA.py writes exactly 7 bytes,
\* address (2), value (1) and timestamp (4), each field at the sum of the
\* widths before it.
C16_DensePackedLayout ==
    [][/\ (last_op'.name = "eeprom_write_struct" /\ last_op'.out = <<"written">>)
            => eeprom_bin' = Overlay(eeprom_bin, last_op'.address,
                                     <<last_op'.data[1], last_op'.data[2] % 256,
                                       last_op'.data[2] \div 256, last_op'.data[3]>>)
       /\ (last_op'.name = "write_structure" /\ last_op'.out = <<"written">>)
            => eeprom_bin' = Overlay(eeprom_bin, last_op'.address,
                                     <<last_op'.address % 256, last_op'.address \div 256,
                                       last_op'.data[1]>> \o UInt32(last_op'.data[2], "little"))]_vars

\* C17: reconstructing a record from a byte sequence that has not exactly the
\* record width fails and yields no record: SensorData.unpack for every input
\* whose length is not 10, and the read_struct(a) of the Tk program with the
\* unchecked read_bytes whenever fewer than sizeof(record) bytes lie between a
\* and the end of the store.
C17_WrongLengthYieldsNoRecord ==
    /\ (last_op.name = "SensorData_unpack" /\ Len(last_op.data) # 10)
          => (last_op.st # "ok" /\ last_op.ret = <<>>)
    /\ (last_op.name = "won_read_struct"
        /\ STRUCT_EEPROM_SIZE - last_op.address < sizeof_EEPROMUnion)
          => last_op.ret = <<>>

\* C21: after the explicit shutdown (menu choice 0) the engine is closed: an
\* operation called afterwards is refused with a ClosedEngine error, and the
\* image and the endurance table do not change.
C21_ClosedAfterExit ==
    [][(last_op.name = "exit" /\ last_op'.name = "write_byte_after_exit")
          => /\ last_op'.st = "ClosedEngine"
             /\ UNCHANGED <<eeprom_bin, write_cycles, write_cycles_bin>>]_vars

ReadOperations == {"read_bytes", "read_string", "compute_checksum"}

\* C22: read_bytes, read_string and compute_checksum with start < 0 or
\* start + length > EEPROM_SIZE fail as out of range and yield no data, text or
\* checksum, rather than a result computed from part of the requested range.
C22_ReadsRefuseOutOfRange ==
    (/\ last_op.name \in ReadOperations
     /\ (last_op.address < 0 \/ last_op.address + last_op.data[1] > EEPROM_SIZE))
        => /\ \E i \in 1..Len(last_op.out) : last_op.out[i] = "out_of_range"
           /\ last_op.ret = <<>>

\* C23: on an unchanged image the checksum is additive modulo 256: for a, L1,
\* L2 >= 0 with a + L1 + L2 <= EEPROM_SIZE, the compute_checksum(a, L1 + L2)
\* that has just returned is (compute_checksum(a, L1) +
\* compute_checksum(a + L1, L2)) mod 256 for every split of its block; the
\* checksum of a fully erased store of N bytes is (N * 255) mod 256.
C23_ChecksumAdditive ==
    (/\ last_op.name = "compute_checksum"
     /\ last_op.address >= 0
     /\ last_op.address + last_op.data[1] <= EEPROM_SIZE)
        => /\ \A L1 \in 0..last_op.data[1] :
                last_op.ret[1]
                   = (compute_checksum(Machine, last_op.address, L1).ret[1]
                        + compute_checksum(Machine, last_op.address + L1,
                                           last_op.data[1] - L1).ret[1]) % 256
           /\ (/\ eeprom_bin = [i \in 1..EEPROM_SIZE |-> ERASED]
               /\ last_op.address = 0
               /\ last_op.data[1] = EEPROM_SIZE)
                => last_op.ret[1] = (EEPROM_SIZE * 255) % 256

\* compute_checksum has run over the whole of a fully erased store of more
\* than one byte
C23_Witness ==
    /\ last_op.name = "compute_checksum"
    /\ last_op.address = 0
    /\ last_op.data = <<EEPROM_SIZE>>
    /\ EEPROM_SIZE > 1
    /\ eeprom_bin = [i \in 1..EEPROM_SIZE |-> ERASED]
    /\ last_op.ret = <<(EEPROM_SIZE * 255) % 256>>

\* C27: write_bytes(start, data) with the whole range in bounds handles every
\* offset i on its own: when the count of start + i was below MAX_WRITE_CYCLES
\* the byte becomes data[i] mod 256 and the count one more, otherwise the byte
\* and the count stay as they were; the offsets after it are still processed.
C27_BlockWritePerCell ==
    [][(/\ last_op'.name = "write_bytes"
        /\ last_op'.address >= 0
        /\ last_op'.address + Len(last_op'.data) <= EEPROM_SIZE)
          => \A i \in 1..Len(last_op'.data) :
                LET c == last_op'.address + i
                IN  IF write_cycles[c] < MAX_WRITE_CYCLES
                    THEN /\ eeprom_bin'[c] = last_op'.data[i] % 256
                         /\ write_cycles'[c] = write_cycles[c] + 1
                    ELSE /\ eeprom_bin'[c] = eeprom_bin[c]
                         /\ write_cycles'[c] = write_cycles[c]]_vars

\* C28: after a confirmed delete_all_written every image byte is 0xFF, the count
\* of an address that held 0xFF is unchanged, the count of every other address
\* is one higher, and write_cycles.bin equals the table in memory.
C28_DeleteAllFrame ==
    [][(last_op'.name = "delete_all_written" /\ last_op'.out # <<"cancelled">>)
          => /\ \A i \in 1..Len(eeprom_bin') : eeprom_bin'[i] = ERASED
             /\ \A i \in 1..EEPROM_SIZE :
                   write_cycles'[i] = write_cycles[i] + (IF eeprom_bin[i] = ERASED THEN 0 ELSE 1)
             /\ write_cycles_bin' = write_cycles']_vars

RECURSIVE PrintableBytes(_, _)
\* the bytes of eeprom.bin at the positions lo .. hi whose value is in 32..126,
\* in address order
PrintableBytes(lo, hi) ==
    IF lo > hi THEN <<>>
    ELSE (IF 32 <= eeprom_bin[lo] /\ eeprom_bin[lo] <= 126 THEN <<eeprom_bin[lo]>> ELSE <<>>)
            \o PrintableBytes(lo + 1, hi)

\* C29: read_string(start, length) with the range in bounds returns the bytes
\* of start .. start + length - 1 whose value is in 32..126, in address order:
\* it scans the whole length, does not stop at a 0x00, and drops every byte
\* outside 32..126.
C29_ReadStringFilters ==
    (/\ last_op.name = "read_string"
     /\ last_op.address >= 0
     /\ last_op.address + last_op.data[1] <= EEPROM_SIZE)
        => /\ last_op.st = "ok"
           /\ last_op.ret = PrintableBytes(last_op.address + 1, last_op.address + last_op.data[1])

\* a read_string has returned a character that lies behind a 0x00 of its range
C29_Witness ==
    /\ last_op.name = "read_string"
    /\ last_op.address >= 0
    /\ last_op.address + last_op.data[1] <= EEPROM_SIZE
    /\ last_op.ret # <<>>
    /\ \E i \in 1..EEPROM_SIZE, j \in 1..EEPROM_SIZE :
          /\ last_op.address < i /\ i < j /\ j <= last_op.address + last_op.data[1]
          /\ eeprom_bin[i] = TERMINATOR
          /\ 32 <= eeprom_bin[j] /\ eeprom_bin[j] <= 126

QueryOperations == {"read_byte", "read_bytes", "read_string", "compute_checksum", "dump_eeprom"}

\* C30: read_byte, read_bytes, read_string, compute_checksum and dump_eeprom
\* leave every image byte and every count unchanged, in memory and in the
\* files, whatever their arguments; they only add to the audit log.
C30_ReadsChangeNothing ==
    [][(last_op'.name \in QueryOperations)
          => UNCHANGED <<fs, eeprom_bin, write_cycles_bin, default_text_txt, write_cycles>>]_vars

\* a read of cells in range has been logged
C30_Witness ==
    /\ last_op.name \in QueryOperations
    /\ last_op.address >= 0
    /\ last_op.log # <<>>
    /\ \E i \in 1..EEPROM_SIZE : write_cycles[i] > 0

\* C24: the 4 bytes of the unsigned 32-bit little-endian integer 0x42C80000
\* (1120403456), read back through as_float as an IEEE-754 single, are 100.0.
C24_UnionReadsHundred ==
    (last_op.name = "as_float" /\ last_op.data = <<1120403456>>)
        => /\ last_op.st = "ok"
           /\ last_op.ret = <<Dyadic(0, 100, 0)>>

\* as_float has been applied to 0x42C80000, whose bytes are 00 00 C8 42
C24_Witness ==
    /\ last_op.name = "as_float"
    /\ last_op.data = <<1120403456>>
    /\ pack_I(last_op.data[1]) = <<0, 0, 200, 66>>
    /\ last_op.ret # <<>>

\* C25: when the reset_eeprom of the Tk program returns, every image byte is
\* the erased value 0xFF and every count is 0.
C25_TkResetErasesAndZeroes ==
    (last_op.name = "won_reset_eeprom" /\ last_op.st = "ok")
        => /\ \A i \in 1..Len(eeprom_bin) : eeprom_bin[i] = ERASED
           /\ \A i \in 1..Len(write_cycles) : write_cycles[i] = 0
           /\ Len(write_cycles) = EEPROM_SIZE

\* C26: the init_eeprom of the Tk program, finding eeprom.bin or
\* write_cycles.bin with a length other than EEPROM_SIZE, raises nothing and
\* makes both afresh; after it write_cycles has EEPROM_SIZE entries, so that no
\* write_byte on an address in range fails to index it.
C26_TkInitRepairsCorruptStore ==
    [][/\ (last_op'.name = "won_init_eeprom")
            => /\ last_op'.st = "ok"
               /\ Len(write_cycles') = EEPROM_SIZE
               /\ (\/ (EEPROM_FILE \in fs /\ Len(eeprom_bin) # EEPROM_SIZE)
                   \/ (WRITE_CYCLE_FILE \in fs /\ Len(write_cycles_bin) # EEPROM_SIZE))
                     => /\ Len(eeprom_bin') = EEPROM_SIZE
                        /\ write_cycles_bin' = [i \in 1..EEPROM_SIZE |-> 0]
                        /\ write_cycles' = write_cycles_bin'
       /\ (last_op'.name = "won_write_byte" /\ InRange(last_op'.address))
            => last_op'.st # "IndexError"]_vars

\* C31: an accepted write_byte(a, v) changes only the image byte at a, to
\* v mod 256, and the count of a, by exactly +1 in memory and in
\* write_cycles.bin; the byte and the count of every other address are
\* unchanged, and the count goes up also when a already held the value.
C31_AcceptedWriteFrame ==
    [][(last_op'.name = "write_byte" /\ Accepted(last_op'))
          => LET a == last_op'.address + 1
             IN  /\ InRange(last_op'.address)
                 /\ eeprom_bin' = [eeprom_bin EXCEPT ![a] = last_op'.data[1] % 256]
                 /\ write_cycles' = [write_cycles EXCEPT ![a] = @ + 1]
                 /\ write_cycles_bin' = [write_cycles_bin EXCEPT ![a] = @ + 1]]_vars

\* a second write to the same address has been accepted while another address
\* has a count of its own
C31_Witness ==
    /\ last_op.name = "write_byte"
    /\ Accepted(last_op)
    /\ write_cycles[last_op.address + 1] >= 2
    /\ \E i \in 1..EEPROM_SIZE : i # last_op.address + 1 /\ write_cycles[i] > 0

\* the audit events of the last operation that report a deletion covering address a
DeletedEvents(a) ==
    {i \in 1..Len(last_op.log) :
        /\ last_op.log[i].ev \in {"DELETED_BYTE", "DELETED_BLOCK"}
        /\ last_op.log[i].address <= a
        /\ a < last_op.log[i].address + last_op.log[i].n}

C33_DeleteIsWriteOfErased ==
    [][(last_op'.name = "won_delete_byte" /\ InRange(last_op'.address))
          => LET a == last_op'.address
                 w == won_write_byte(Machine, a, ERASED)
                 d == delete_single_byte(Machine, a, TRUE)
                 r == write_byte(Machine, a, ERASED)
             IN  /\ eeprom_bin' = w.eeprom
                 /\ write_cycles' = w.wc
                 /\ write_cycles_bin' = w.cycfile
                 /\ d.eeprom = r.eeprom /\ d.wc = r.wc /\ d.cycfile = r.cycfile
                 /\ (a < Len(write_cycles))
                       => IF write_cycles[a + 1] >= MAX_WRITE_CYCLES
                          THEN /\ UNCHANGED <<eeprom_bin, write_cycles, write_cycles_bin>>
                               /\ d.eeprom = eeprom_bin /\ d.wc = write_cycles
                                                        /\ d.cycfile = write_cycles_bin
                          ELSE /\ eeprom_bin'[a + 1] = ERASED
                               /\ write_cycles'[a + 1] = write_cycles[a + 1] + 1
                               /\ d.eeprom[a + 1] = ERASED
                               /\ d.wc[a + 1] = write_cycles[a + 1] + 1]_vars

\* a delete of an exhausted cell has been refused
C33_Witness ==
    /\ last_op.name = "won_delete_byte"
    /\ InRange(last_op.address)
    /\ last_op.out = <<"max_write_cycles">>
    /\ last_op.address < Len(write_cycles)
    /\ write_cycles[last_op.address + 1] >= MAX_WRITE_CYCLES

\* C34: write_string does not wrap a character outside the byte range: for a
\* character whose code point is above 255 it never stores the code point
\* modulo 256 as if it were a byte.
C34_NoSilentWrap ==
    [][(last_op'.name = "write_string")
          => \A i \in 1..Len(last_op'.data) :
                LET c == last_op'.address + i
                IN  (last_op'.data[i] > 255 /\ InRange(c - 1))
                       => ~(/\ eeprom_bin'[c] = last_op'.data[i] % 256
                            /\ write_cycles'[c] = write_cycles[c] + 1)]_vars

====
